---- MODULE Spec2Model ----
(***************************************************************************)
(* Model of src/src/QueryBuilder/index.ts: the compilation of a FHIR       *)
(* search request into an Elasticsearch boolean query.                     *)
(*                                                                         *)
(* Representation of JavaScript values:                                    *)
(*   - a string that the code scans or concatenates is a sequence of       *)
(*     one-character strings (search values) or of tokens (field names);   *)
(*   - a parameter name, a type tag or a resource type is a TLA+ string;   *)
(*   - an object literal is a record with the same keys;                   *)
(*   - an array held in a typed local or in a key that always holds an     *)
(*     array (must, should, filter, fields) is a sequence; an array that   *)
(*     stands where an object could stand too (an `any` value) is the      *)
(*     record [array |-> <<...>>];                                         *)
(*   - a thrown InvalidSearchParameterError is the record                  *)
(*     [error |-> ..., message |-> <<parts of the template literal>>].     *)
(***************************************************************************)
EXTENDS Integers, Sequences, FiniteSets

VARIABLES
    \* searchParamQuery: arguments, locals and return value
    searchParam, valueIn, searchValue, c, lastIndex, splitSearchValue, queryList, ret, pcParam,
    \* buildQueryForAllSearchParameters: arguments, locals and return value
    queryParams, additionalFilters, normalizedQueryParams, entries, k, lookups, must, result, pc

paramVars == <<searchParam, valueIn, searchValue, c, lastIndex, splitSearchValue, queryList, ret, pcParam>>
requestVars == <<queryParams, additionalFilters, normalizedQueryParams, entries, k, lookups, must, result, pc>>
vars == <<paramVars, requestVars>>

\* ---------------------------------------------------------------- bounds

\* longest search value scanned by the state machine of searchParamQuery
MaxLen == 4
\* most compiled descriptors of one search parameter
MaxCompiled == 2
\* largest request: one unit per parameter plus one per array element
MaxWeight == 5

\* ------------------------------------------------------------- JS values

\* undefined in a slot that otherwise holds an array
Undefined == <<"undefined">>

\* undefined in a slot that otherwise holds an object
UndefinedObject == [undefined |-> TRUE]

Arr(items) == [array |-> items]

\* String.prototype.substring(start, end) and substring(start), 0-based
substring(s, start, end) == SubSeq(s, start + 1, end)

substringFrom(s, start) == SubSeq(s, start + 1, Len(s))

\* s[i], 0-based
charAt(s, i) == s[i + 1]

Chars == {"a", ",", "\\"}

Strings(n) == UNION {[1..m -> Chars] : m \in 0..n}

\* ------------------------------------------------- external collaborators

\* The six type queries: only their signature (compiled descriptor, value)
\* and their identity matter to the query builder.
stringQuery(compiled, value) == [typeQuery |-> "stringQuery", compiled |-> compiled, value |-> value]

dateQuery(compiled, value) == [typeQuery |-> "dateQuery", compiled |-> compiled, value |-> value]

tokenQuery(compiled, value) == [typeQuery |-> "tokenQuery", compiled |-> compiled, value |-> value]

numberQuery(compiled, value) == [typeQuery |-> "numberQuery", compiled |-> compiled, value |-> value]

quantityQuery(compiled, value) == [typeQuery |-> "quantityQuery", compiled |-> compiled, value |-> value]

referenceQuery(compiled, value) == [typeQuery |-> "referenceQuery", compiled |-> compiled, value |-> value]

\* -------------------------------------------------- typeQueryWithConditions

\* the switch on searchParam.type
TypeQuery(type, compiled, value) ==
    CASE type = "string" -> stringQuery(compiled, value)
      [] type = "date" -> dateQuery(compiled, value)
      [] type = "token" -> tokenQuery(compiled, value)
      [] type = "number" -> numberQuery(compiled, value)
      [] type = "quantity" -> quantityQuery(compiled, value)
      [] type = "reference" -> referenceQuery(compiled, value)
      [] OTHER -> stringQuery(compiled, value)

\* the multi_match clause built from compiledSearchParam.condition
ConditionQuery(condition) ==
    [multi_match |-> [fields |-> <<condition[1], condition[1] \o <<".*">>>>,
                      query |-> condition[3],
                      lenient |-> TRUE]]

\* mutant: the condition of the descriptor is ignored
typeQueryWithConditionsNoCondition(sp, compiled, value) ==
    TypeQuery(sp.type, compiled, value)

typeQueryWithConditions(sp, compiled, value) ==
    LET typeQuery == TypeQuery(sp.type, compiled, value)
    IN  IF compiled.condition # Undefined
        THEN [bool |-> [must |-> <<typeQuery, ConditionQuery(compiled.condition)>>]]
        ELSE typeQuery

\* -------------------------------------------------------- searchParamQuery

\* the locals of the scan loop
ScanStart(value) == [searchValue |-> value, c |-> 0, lastIndex |-> 0, splitSearchValue |-> <<>>]

\* mutant: the comma uncovered by removing its backslash is examined again
ScanBodyRescan(st) ==
    LET s == st.searchValue
        i == st.c
    IN  IF charAt(s, i) = "\\"
        THEN IF i + 1 < Len(s) /\ charAt(s, i + 1) = ","
             THEN [st EXCEPT !.searchValue = substring(s, 0, i) \o substringFrom(s, i + 1)]
             ELSE [st EXCEPT !.c = i + 1]
        ELSE IF charAt(s, i) = ","
             THEN [st EXCEPT !.splitSearchValue = Append(@, substring(s, st.lastIndex, i)),
                             !.lastIndex = i + 1,
                             !.c = i + 1]
             ELSE [st EXCEPT !.c = i + 1]

\* one iteration of the scan loop, c++ included
ScanBody(st) ==
    LET s == st.searchValue
        i == st.c
    IN  IF charAt(s, i) = "\\"
        THEN IF i + 1 < Len(s) /\ charAt(s, i + 1) = ","
             THEN [st EXCEPT !.searchValue = substring(s, 0, i) \o substringFrom(s, i + 1),
                             !.c = i + 1]
             ELSE [st EXCEPT !.c = i + 1]
        ELSE IF charAt(s, i) = ","
             THEN [st EXCEPT !.splitSearchValue = Append(@, substring(s, st.lastIndex, i)),
                             !.lastIndex = i + 1,
                             !.c = i + 1]
             ELSE [st EXCEPT !.c = i + 1]

\* the push of the trailing segment after the loop
ScanEnd(st) == Append(st.splitSearchValue, substringFrom(st.searchValue, st.lastIndex))

RECURSIVE ScanLoop(_)
ScanLoop(st) == IF st.c < Len(st.searchValue) THEN ScanLoop(ScanBody(st)) ELSE st

\* the whole split of one search value
SplitSearchValue(value) == ScanEnd(ScanLoop(ScanStart(value)))

\* mutant: the descriptors are mapped in reverse order
CompiledQueriesReversed(sp, value) ==
    Arr([j \in 1..Len(sp.compiled) |->
            typeQueryWithConditions(sp, sp.compiled[Len(sp.compiled) + 1 - j], value)])

\* searchParam.compiled.map(compiled => typeQueryWithConditions(...))
CompiledQueries(sp, value) ==
    Arr([j \in 1..Len(sp.compiled) |-> typeQueryWithConditions(sp, sp.compiled[j], value)])

\* mutant: every result is wrapped in a should node
JoinedQueryAlwaysShould(list) == [bool |-> [should |-> list]]

\* queryList.join() discards its result and leaves queryList as it is; then
\* the single entry or the should node is returned
JoinedQuery(list) ==
    IF Len(list) = 1 THEN list[1] ELSE [bool |-> [should |-> list]]

searchParamQuery(sp, value) ==
    LET split == SplitSearchValue(value)
    IN  JoinedQuery([n \in 1..Len(split) |-> CompiledQueries(sp, split[n])])

\* ------------------------------------------- searchParamQuery, step by step

Types == {"string", "date", "token", "number", "quantity", "reference",
          "composite", "special", "uri", "unknown"}

\* compiled descriptors as the registry holds them: without and with a condition
PlainCompiled == [path |-> "name.family", condition |-> Undefined]

ConditionCompiled ==
    [path |-> "telecom.value", condition |-> <<<<"telecom.system">>, "=", <<"email">>>>]

Compileds == {PlainCompiled, ConditionCompiled}

SearchParams ==
    {[name |-> "p", type |-> t, compiled |-> cs] :
        t \in Types, cs \in UNION {[1..n -> Compileds] : n \in 1..MaxCompiled}}

RequestIdle ==
    /\ queryParams = <<>>
    /\ additionalFilters = Undefined
    /\ normalizedQueryParams = <<>>
    /\ entries = <<>>
    /\ k = 0
    /\ lookups = <<>>
    /\ must = <<>>
    /\ result = UndefinedObject
    /\ pc = "idle"

ParamInit ==
    /\ searchParam \in SearchParams
    /\ valueIn \in Strings(MaxLen)
    /\ searchValue = valueIn
    /\ c = 0
    /\ lastIndex = 0
    /\ splitSearchValue = <<>>
    /\ queryList = <<>>
    /\ ret = UndefinedObject
    /\ pcParam = "scan"
    /\ RequestIdle

ScanState ==
    [searchValue |-> searchValue, c |-> c, lastIndex |-> lastIndex,
     splitSearchValue |-> splitSearchValue]

\* for (let c = 0; c < searchValue.length; c++) { ... }
ScanIterate ==
    /\ pcParam = "scan"
    /\ c < Len(searchValue)
    /\ LET st == ScanBody(ScanState)
       IN  /\ searchValue' = st.searchValue
           /\ c' = st.c
           /\ lastIndex' = st.lastIndex
           /\ splitSearchValue' = st.splitSearchValue
    /\ UNCHANGED <<searchParam, valueIn, queryList, ret, pcParam, requestVars>>

\* loop exit and splitSearchValue.push(searchValue.substring(lastIndex))
ScanFinish ==
    /\ pcParam = "scan"
    /\ ~(c < Len(searchValue))
    /\ splitSearchValue' = ScanEnd(ScanState)
    /\ pcParam' = "build"
    /\ UNCHANGED <<searchParam, valueIn, searchValue, c, lastIndex, queryList, ret, requestVars>>

\* for (let i = 0; i < splitSearchValue.length; i++) queryList.push(...);
\* i is queryList.length throughout
BuildIterate ==
    /\ pcParam = "build"
    /\ Len(queryList) < Len(splitSearchValue)
    /\ queryList' = Append(queryList,
                           CompiledQueries(searchParam, splitSearchValue[Len(queryList) + 1]))
    /\ UNCHANGED <<searchParam, valueIn, searchValue, c, lastIndex, splitSearchValue, ret,
                   pcParam, requestVars>>

\* queryList.join(); and the return
ParamReturn ==
    /\ pcParam = "build"
    /\ ~(Len(queryList) < Len(splitSearchValue))
    /\ ret' = JoinedQuery(queryList)
    /\ pcParam' = "done"
    /\ UNCHANGED <<searchParam, valueIn, searchValue, c, lastIndex, splitSearchValue,
                   queryList, requestVars>>

ParamNext == ScanIterate \/ ScanFinish \/ BuildIterate \/ ParamReturn

SpecParam == ParamInit /\ [][ParamNext]_vars

\* --------------------------------------- buildQueryForAllSearchParameters

\* a value a router may put under one key of queryParams, or in an array there
JsValue(kind, s, items) == [kind |-> kind, string |-> s, array |-> items]

StringValue(s) == JsValue("string", s, <<>>)

NumberValue == JsValue("number", <<>>, <<>>)

\* such as {"key": "Smith"}, parsed from name[key]=Smith
ObjectValue == JsValue("object", <<>>, <<>>)

ArrayValue(items) == JsValue("array", <<>>, items)

SearchValues == {<<"a">>, <<"a", ",", "a">>}

ArrayItems == {StringValue(s) : s \in SearchValues} \cup {NumberValue}

\* the values of weight at most w: 1 for a string or an object, 1 + length for an array
RawValues(w) ==
    IF w < 1 THEN {}
    ELSE {StringValue(s) : s \in SearchValues} \cup {ObjectValue}
            \cup {ArrayValue(items) : items \in UNION {[1..n -> ArrayItems] : n \in 0..(w - 1)}}

Weight(v) == 1 + Len(v.array)

ParamNames == {"name", "telecom", "foo", "_count"}

\* n values of total weight at most w
RECURSIVE ValueSeqs(_, _)
ValueSeqs(n, w) ==
    IF n = 0 THEN {<<>>}
    ELSE UNION {{<<v>> \o rest : rest \in ValueSeqs(n - 1, w - Weight(v))} :
                    v \in RawValues(w - (n - 1))}

\* n distinct keys, in insertion order
KeySeqs(n) == {ks \in [1..n -> ParamNames] : \A i, j \in 1..n : ks[i] = ks[j] => i = j}

\* queryParams as Object.entries lists it: the keys in insertion order, each with
\* its value
Request(ks, vs) == [i \in 1..Len(ks) |-> [key |-> ks[i], value |-> vs[i]]]

resourceType == "Patient"

\* a clause the caller built
CallerFilter == [match |-> [tenantId |-> "t1"]]

\* an optional argument: left out, or given
Omitted == <<>>

Given(argument) == <<argument>>

\* ../constants: the parameters that are no search criteria
NON_SEARCHABLE_PARAMETERS == {"_count", "_format"}

\* FHIRSearchParametersRegistry.getSearchParameter for the registry of the model
getSearchParameter(type, name) ==
    IF type = "Patient" /\ name = "name"
    THEN [name |-> "name", type |-> "string", compiled |-> <<PlainCompiled>>]
    ELSE IF type = "Patient" /\ name = "telecom"
    THEN [name |-> "telecom", type |-> "token", compiled |-> <<ConditionCompiled, PlainCompiled>>]
    ELSE UndefinedObject

InvalidSearchParameterError(message) ==
    [error |-> "InvalidSearchParameterError", message |-> message]

\* typeof v === 'string'
IsString(v) == v.kind = "string"

\* Array.isArray(v)
IsArray(v) == v.kind = "array"

\* mutant: the return after the string case is missing, a string falls through
IsStringOrStringArrayFallThrough(v) ==
    IsArray(v) /\ \A m \in 1..Len(v.array) : IsString(v.array[m])

\* typeof searchValue === 'string', or an array whose every element is a string
IsStringOrStringArray(v) ==
    \/ IsString(v)
    \/ IsArray(v) /\ \A m \in 1..Len(v.array) : IsString(v.array[m])

\* what normalizeQueryParams stores under the key
NormalizedValue(v) == IF IsString(v) THEN <<v>> ELSE v.array

ParamIdle ==
    /\ searchParam = UndefinedObject
    /\ valueIn = <<>>
    /\ searchValue = <<>>
    /\ c = 0
    /\ lastIndex = 0
    /\ splitSearchValue = <<>>
    /\ queryList = <<>>
    /\ ret = UndefinedObject
    /\ pcParam = "idle"

Init ==
    /\ \E n \in 0..Cardinality(ParamNames) :
         \E ks \in KeySeqs(n), vs \in ValueSeqs(n, MaxWeight) : queryParams = Request(ks, vs)
    /\ additionalFilters \in {Omitted, Given(<<CallerFilter>>)}
    /\ normalizedQueryParams = <<>>
    /\ entries = <<>>
    /\ k = 0
    /\ lookups = <<>>
    /\ must = <<>>
    /\ result = UndefinedObject
    /\ pc = "normalize"
    /\ ParamIdle

\* normalizeQueryParams: one entry of Object.entries(queryParams).forEach
NormalizeEntry ==
    /\ pc = "normalize"
    /\ k < Len(queryParams)
    /\ IsStringOrStringArray(queryParams[k + 1].value)
    /\ normalizedQueryParams' =
            Append(normalizedQueryParams,
                   [key |-> queryParams[k + 1].key,
                    value |-> NormalizedValue(queryParams[k + 1].value)])
    /\ k' = k + 1
    /\ UNCHANGED <<queryParams, additionalFilters, entries, lookups, must, result, pc, paramVars>>

\* mutant: a malformed value under a non-searchable key is dropped, as if the
\* filter ran before the normalization
NormalizeThrowSearchableOnly ==
    /\ pc = "normalize"
    /\ k < Len(queryParams)
    /\ ~IsStringOrStringArray(queryParams[k + 1].value)
    /\ IF queryParams[k + 1].key \in NON_SEARCHABLE_PARAMETERS
       THEN /\ k' = k + 1
            /\ UNCHANGED <<result, pc>>
       ELSE /\ result' = InvalidSearchParameterError(
                            <<"Invalid search parameter: '", queryParams[k + 1].key, "'">>)
            /\ pc' = "thrown"
            /\ k' = k
    /\ UNCHANGED <<queryParams, additionalFilters, normalizedQueryParams, entries, lookups, must,
                   paramVars>>

\* normalizeQueryParams: the throw for any other shape
NormalizeThrow ==
    /\ pc = "normalize"
    /\ k < Len(queryParams)
    /\ ~IsStringOrStringArray(queryParams[k + 1].value)
    /\ result' = InvalidSearchParameterError(
                    <<"Invalid search parameter: '", queryParams[k + 1].key, "'">>)
    /\ pc' = "thrown"
    /\ UNCHANGED <<queryParams, additionalFilters, normalizedQueryParams, entries, k, lookups,
                   must, paramVars>>

\* mutant: no parameter is filtered out
SearchableEntriesAll(normalized) == normalized

\* .filter(([searchParameter]) => !NON_SEARCHABLE_PARAMETERS.includes(searchParameter))
SearchableEntries(normalized) ==
    LET Searchable(e) == e.key \notin NON_SEARCHABLE_PARAMETERS
    IN  SelectSeq(normalized, Searchable)

\* normalizeQueryParams returns; Object.entries(...).filter(...) runs over all entries
Filter ==
    /\ pc = "normalize"
    /\ ~(k < Len(queryParams))
    /\ entries' = SearchableEntries(normalizedQueryParams)
    /\ k' = 0
    /\ pc' = "flatMap"
    /\ UNCHANGED <<queryParams, additionalFilters, normalizedQueryParams, lookups, must, result,
                   paramVars>>

RECURSIVE Flat(_)
\* Array.prototype.flat(Infinity) on a sequence of query values
Flat(list) ==
    IF list = <<>> THEN <<>>
    ELSE (IF "array" \in DOMAIN list[1] THEN Flat(list[1].array) ELSE <<list[1]>>)
            \o Flat(Tail(list))

\* mutant: the callback's result is flattened to any depth
SearchValueQueriesFlat(sp, searchValues) ==
    Flat([m \in 1..Len(searchValues) |-> searchParamQuery(sp, searchValues[m].string)])

\* searchValues.map(searchValue => searchParamQuery(fhirSearchParam, searchValue)),
\* which flatMap flattens by one level into the must list
SearchValueQueries(sp, searchValues) ==
    [m \in 1..Len(searchValues) |-> searchParamQuery(sp, searchValues[m].string)]

\* the flatMap callback for a parameter the registry resolves
FlatMapEntry ==
    /\ pc = "flatMap"
    /\ k < Len(entries)
    /\ LET fhirSearchParam == getSearchParameter(resourceType, entries[k + 1].key)
       IN  /\ fhirSearchParam # UndefinedObject
           /\ must' = must \o SearchValueQueries(fhirSearchParam, entries[k + 1].value)
    /\ lookups' = Append(lookups, <<resourceType, entries[k + 1].key>>)
    /\ k' = k + 1
    /\ UNCHANGED <<queryParams, additionalFilters, normalizedQueryParams, entries, result, pc,
                   paramVars>>

\* mutant: a parameter the registry does not resolve is skipped
FlatMapSkip ==
    /\ pc = "flatMap"
    /\ k < Len(entries)
    /\ getSearchParameter(resourceType, entries[k + 1].key) = UndefinedObject
    /\ lookups' = Append(lookups, <<resourceType, entries[k + 1].key>>)
    /\ k' = k + 1
    /\ UNCHANGED <<queryParams, additionalFilters, normalizedQueryParams, entries, must, result,
                   pc, paramVars>>

\* the flatMap callback for a parameter the registry does not resolve
FlatMapThrow ==
    /\ pc = "flatMap"
    /\ k < Len(entries)
    /\ getSearchParameter(resourceType, entries[k + 1].key) = UndefinedObject
    /\ lookups' = Append(lookups, <<resourceType, entries[k + 1].key>>)
    /\ result' = InvalidSearchParameterError(
                    <<"Invalid search parameter '", entries[k + 1].key,
                      "' for resource type ", resourceType>>)
    /\ pc' = "thrown"
    /\ UNCHANGED <<queryParams, additionalFilters, normalizedQueryParams, entries, k, must,
                   paramVars>>

\* the object buildQueryForAllSearchParameters returns; filters defaults to []
BoolQuery(filters, queries) ==
    [bool |-> [filter |-> IF filters = Omitted THEN <<>> ELSE filters[1], must |-> queries]]

\* searchRequestQuery returns and the query is built
Build ==
    /\ pc = "flatMap"
    /\ ~(k < Len(entries))
    /\ result' = BoolQuery(additionalFilters, must)
    /\ pc' = "done"
    /\ UNCHANGED <<queryParams, additionalFilters, normalizedQueryParams, entries, k, lookups,
                   must, paramVars>>

Next == NormalizeEntry \/ NormalizeThrow \/ Filter \/ FlatMapEntry \/ FlatMapThrow \/ Build

Spec == Init /\ [][Next]_vars

\* ------------------------------------ claims about searchParamQuery (SpecParam)

\* the positions (1-based) of the commas not immediately preceded by a backslash
UnescapedCommas(s) == {n \in 1..Len(s) : s[n] = "," /\ (n = 1 \/ s[n - 1] # "\\")}

\* every backslash-comma pair becomes a comma, every other character is copied
RECURSIVE Unescape(_)
Unescape(s) ==
    IF s = <<>> THEN <<>>
    ELSE IF Len(s) >= 2 /\ s[1] = "\\" /\ s[2] = ","
         THEN <<",">> \o Unescape(SubSeq(s, 3, Len(s)))
         ELSE <<s[1]>> \o Unescape(Tail(s))

\* the reference split: cut at the unescaped commas, unescape each segment
RECURSIVE ReferenceSplit(_)
ReferenceSplit(s) ==
    IF UnescapedCommas(s) = {} THEN <<Unescape(s)>>
    ELSE LET n == CHOOSE m \in UnescapedCommas(s) : \A o \in UnescapedCommas(s) : m <= o
         IN  <<Unescape(SubSeq(s, 1, n - 1))>> \o ReferenceSplit(SubSeq(s, n + 1, Len(s)))

\* every comma becomes a backslash-comma pair
RECURSIVE Escape(_)
Escape(s) ==
    IF s = <<>> THEN <<>>
    ELSE IF s[1] = "," THEN <<"\\", ",">> \o Escape(Tail(s))
         ELSE <<s[1]>> \o Escape(Tail(s))

Scanned == pcParam \in {"build", "done"}

\* C5 (as the claim states it): with exactly one compiled descriptor and a value
\* without a comma, searchParamQuery returns the bare output of
\* typeQueryWithConditions for that descriptor and value, in no enclosing sequence.
C5_SingleDescriptorBare ==
    (pcParam = "done" /\ Len(searchParam.compiled) = 1 /\ \A n \in 1..Len(valueIn) : valueIn[n] # ",")
        => ret = typeQueryWithConditions(searchParam, searchParam.compiled[1], valueIn)

\* C6: with n >= 2 compiled descriptors and a value of a single alternative,
\* searchParamQuery returns a sequence of exactly n queries, the j-th the output
\* of typeQueryWithConditions for the j-th descriptor and the alternative, and
\* the sequence is not wrapped in a should node.
C6_DescriptorSequence ==
    (pcParam = "done" /\ Len(searchParam.compiled) >= 2 /\ Len(splitSearchValue) = 1)
        => /\ DOMAIN ret = {"array"}
           /\ Len(ret.array) = Len(searchParam.compiled)
           /\ \A j \in 1..Len(searchParam.compiled) :
                ret.array[j] = typeQueryWithConditions(searchParam, searchParam.compiled[j],
                                                       splitSearchValue[1])

C6_Witness ==
    /\ pcParam = "done"
    /\ searchParam.compiled = <<PlainCompiled, ConditionCompiled>>
    /\ valueIn = <<"a", "\\", ",">>
    /\ DOMAIN ret = {"array"}

\* C7: the scan loop terminates (c only grows and never passes the length of the
\* value, which never grows) and yields the reference split of its input: cut at
\* the commas not preceded by a backslash, backslash-comma pairs replaced by a
\* comma, everything else copied; so 1 + (unescaped commas) alternatives, a value
\* without unescaped comma gives its unescaped self, and a trailing unescaped
\* comma gives a final empty alternative.
C7_ScanIsReferenceSplit ==
    /\ c <= Len(searchValue)
    /\ Len(searchValue) <= Len(valueIn)
    /\ lastIndex <= c
    /\ Scanned =>
        /\ splitSearchValue = ReferenceSplit(valueIn)
        /\ Len(splitSearchValue) = 1 + Cardinality(UnescapedCommas(valueIn))
        /\ UnescapedCommas(valueIn) = {} => splitSearchValue = <<Unescape(valueIn)>>
        /\ Len(valueIn) \in UnescapedCommas(valueIn)
              => splitSearchValue[Len(splitSearchValue)] = <<>>

C7_Witness ==
    /\ pcParam = "build"
    /\ valueIn = <<"\\", ",", ",", "a">>
    /\ splitSearchValue = << <<",">>, <<"a">> >>

\* C8: a value of k >= 2 alternatives gives {bool: {should: L}} with k entries in
\* alternative order, the i-th being what searchParamQuery returns for a value
\* whose only alternative is the i-th one; a value of one alternative gives no
\* should node.
C8_ShouldPerAlternative ==
    pcParam = "done" =>
        IF Len(splitSearchValue) >= 2
        THEN /\ DOMAIN ret = {"bool"}
             /\ DOMAIN ret.bool = {"should"}
             /\ Len(ret.bool.should) = Len(splitSearchValue)
             /\ \A n \in 1..Len(splitSearchValue) :
                  /\ SplitSearchValue(Escape(splitSearchValue[n])) = <<splitSearchValue[n]>>
                  /\ ret.bool.should[n] = searchParamQuery(searchParam, Escape(splitSearchValue[n]))
        ELSE ~("bool" \in DOMAIN ret /\ "should" \in DOMAIN ret.bool)

C8_Witness ==
    /\ pcParam = "done"
    /\ valueIn = <<"a", ",", "\\", ",">>
    /\ Len(searchParam.compiled) = 2
    /\ Len(ret.bool.should) = 2

\* the constructor the declared type selects
ExpectedBase(type, compiled, value) ==
    IF type = "date" THEN dateQuery(compiled, value)
    ELSE IF type = "token" THEN tokenQuery(compiled, value)
    ELSE IF type = "number" THEN numberQuery(compiled, value)
    ELSE IF type = "quantity" THEN quantityQuery(compiled, value)
    ELSE IF type = "reference" THEN referenceQuery(compiled, value)
    ELSE stringQuery(compiled, value)

\* C9: for every declared type, descriptor and value, typeQueryWithConditions
\* returns the base query of the constructor the type selects (the string one
\* for composite, special, uri and unknown types) when the descriptor has no
\* condition, and {bool: {must: [base, {multi_match: {fields: [f, f.*], query:
\* matchVal, lenient: true}}]}} when it has the condition (f, _, matchVal).
C9_DispatchAndCondition ==
    \A n \in 1..Len(queryList) :
        /\ Len(queryList[n].array) = Len(searchParam.compiled)
        /\ \A j \in 1..Len(searchParam.compiled) :
            LET compiled == searchParam.compiled[j]
                base == ExpectedBase(searchParam.type, compiled, splitSearchValue[n])
                q == queryList[n].array[j]
            IN  IF compiled.condition = Undefined
                THEN q = base
                ELSE q = [bool |-> [must |-> <<base,
                            [multi_match |->
                                [fields |-> <<compiled.condition[1],
                                              compiled.condition[1] \o <<".*">>>>,
                                 query |-> compiled.condition[3],
                                 lenient |-> TRUE]]>>]]

C9_Witness ==
    /\ searchParam.type = "unknown"
    /\ searchParam.compiled = <<ConditionCompiled, PlainCompiled>>
    /\ Len(queryList) = 2

\* --------------------- claims about buildQueryForAllSearchParameters (Spec)

\* a string, or an array of strings only
WellFormed(v) ==
    \/ v.kind = "string"
    \/ v.kind = "array" /\ \A m \in 1..Len(v.array) : v.array[m].kind = "string"

MalformedAt == {m \in 1..Len(queryParams) : ~WellFormed(queryParams[m].value)}

FirstMalformed == CHOOSE m \in MalformedAt : \A o \in MalformedAt : m <= o

\* the strings a well-formed value stands for, in order
StringsOf(v) ==
    IF v.kind = "string" THEN <<v.string>> ELSE [m \in 1..Len(v.array) |-> v.array[m].string]

IsSearchableEntry(e) == e.key \notin NON_SEARCHABLE_PARAMETERS

SearchablePart(qp) == SelectSeq(qp, IsSearchableEntry)

UnresolvedAt(qp) ==
    {m \in 1..Len(qp) : getSearchParameter(resourceType, qp[m].key) = UndefinedObject}

RECURSIVE CountValues(_)
CountValues(qp) ==
    IF qp = <<>> THEN 0 ELSE Len(StringsOf(qp[1].value)) + CountValues(Tail(qp))

\* one query per (parameter, value) pair of qp: by parameter, then by value
RECURSIVE QueryPerPair(_)
QueryPerPair(qp) ==
    IF qp = <<>> THEN <<>>
    ELSE LET values == StringsOf(qp[1].value)
             sp == getSearchParameter(resourceType, qp[1].key)
         IN  [m \in 1..Len(values) |-> searchParamQuery(sp, values[m])]
                \o QueryPerPair(Tail(qp))

NormalizationError(key) == InvalidSearchParameterError(<<"Invalid search parameter: '", key, "'">>)

ThrownByNormalize == pc = "thrown" /\ result.message[1] = "Invalid search parameter: '"

ThrownByLookup == pc = "thrown" /\ result.message[1] = "Invalid search parameter '"

\* C1: a successful compilation returns {bool: {filter, must}} whose filter is
\* the caller's additionalFilters ([] when left out) and whose must holds one
\* entry per (searchable parameter, value) pair, by parameter and then by value,
\* so as many as the searchable parameters have values; none for empty queryParams.
C1_MustPerPair ==
    pc = "done" =>
        /\ DOMAIN result = {"bool"}
        /\ DOMAIN result.bool = {"filter", "must"}
        /\ result.bool.filter = (IF additionalFilters = Omitted THEN <<>> ELSE additionalFilters[1])
        /\ Len(result.bool.must) = CountValues(SearchablePart(queryParams))
        /\ result.bool.must = QueryPerPair(SearchablePart(queryParams))
        /\ queryParams = <<>> => result.bool.must = <<>>

C1_Witness ==
    /\ pc = "done"
    /\ additionalFilters = Given(<<CallerFilter>>)
    /\ Len(queryParams) = 2
    /\ queryParams[1].key = "telecom"
    /\ queryParams[1].value = ArrayValue(<<StringValue(<<"a", ",", "a">>), StringValue(<<"a">>)>>)
    /\ queryParams[2].key = "name"
    /\ Len(result.bool.must) = 3

\* C2: when every value is well-formed and some searchable parameter is not in
\* the registry, the compilation never returns a query: it throws
\* InvalidSearchParameterError naming the (first such) parameter and the
\* resource type, wherever the parameter stands.
C2_UnresolvedParameterThrows ==
    (MalformedAt = {} /\ UnresolvedAt(SearchablePart(queryParams)) # {}) =>
        LET qp == SearchablePart(queryParams)
            first == CHOOSE m \in UnresolvedAt(qp) : \A o \in UnresolvedAt(qp) : m <= o
        IN  /\ pc # "done"
            /\ "bool" \notin DOMAIN result
            /\ pc = "thrown" =>
                 result = InvalidSearchParameterError(
                            <<"Invalid search parameter '", qp[first].key,
                              "' for resource type ", resourceType>>)
            /\ pc = "flatMap" => k < first

C2_Witness ==
    /\ pc = "thrown"
    /\ MalformedAt = {}
    /\ Len(queryParams) = 3
    /\ queryParams[1].key = "name"
    /\ queryParams[2].key = "_count"
    /\ queryParams[3].key = "foo"
    /\ must # <<>>
    /\ result.message = <<"Invalid search parameter '", "foo", "' for resource type ", "Patient">>

\* C3: normalizeQueryParams maps a string to the one-element sequence of that
\* string and an array of strings to the same sequence; any other shape throws
\* InvalidSearchParameterError naming the parameter; on success the output has
\* the keys of the input.
C3_Normalize ==
    /\ Len(normalizedQueryParams) <= Len(queryParams)
    /\ \A m \in 1..Len(normalizedQueryParams) :
        LET raw == queryParams[m].value
            out == normalizedQueryParams[m]
        IN  /\ out.key = queryParams[m].key
            /\ WellFormed(raw)
            /\ raw.kind = "string" => out.value = <<raw>>
            /\ raw.kind = "array" => out.value = raw.array
    /\ (pc \in {"flatMap", "done"} \/ ThrownByLookup) =>
            /\ Len(normalizedQueryParams) = Len(queryParams)
            /\ MalformedAt = {}
    /\ ThrownByNormalize =>
            /\ MalformedAt # {}
            /\ result = NormalizationError(queryParams[FirstMalformed].key)
            /\ Len(normalizedQueryParams) = FirstMalformed - 1
    /\ (pc = "normalize" /\ MalformedAt # {}) => Len(normalizedQueryParams) < FirstMalformed

C3_Witness ==
    /\ pc = "flatMap"
    /\ Len(normalizedQueryParams) = 2
    /\ queryParams[1].value.kind = "string"
    /\ queryParams[2].value.kind = "array"
    /\ Len(normalizedQueryParams[2].value) = 2

C10_NormalizeFirst ==
    /\ pc = "normalize" => (lookups = <<>> /\ entries = <<>> /\ must = <<>>)
    /\ lookups # <<>> => Len(normalizedQueryParams) = Len(queryParams)
    /\ MalformedAt # {} =>
            /\ lookups = <<>>
            /\ pc \in {"normalize", "thrown"}
            /\ pc = "thrown" => result = NormalizationError(queryParams[FirstMalformed].key)

C10_Witness ==
    /\ pc = "thrown"
    /\ Len(queryParams) = 3
    /\ queryParams[1].key = "foo"
    /\ WellFormed(queryParams[1].value)
    /\ queryParams[2].key = "_count"
    /\ queryParams[2].value = ObjectValue
    /\ ~WellFormed(queryParams[3].value)
    /\ result = NormalizationError("_count")
    /\ lookups = <<>>

====
